---- MODULE Spec2Model ----
(***************************************************************************)
(* DynamoDBDocumentClient (src/src/wrapper.js): a promise wrapper around   *)
(* AWS.DynamoDB.DocumentClient with getItem, putItem, deleteItem,          *)
(* scanTable and the private buildConditionExpression.                     *)
(*                                                                         *)
(* JavaScript strings that the code builds by concatenation are modelled   *)
(* as sequences of one-character strings, so that the text of a condition  *)
(* expression is really built and really parsed.  Items, keys, params and  *)
(* payloads are records; the mapping the builder iterates over is the      *)
(* sequence of its <<key, value>> pairs in insertion order.  null,         *)
(* undefined or an omitted argument is the empty sequence <<>> and a       *)
(* present value v is <<v>>; an absent field is absent from the record.    *)
(* The constructor (AWS.config.update, new DocumentClient) has run before  *)
(* the initial state; the client and the remote service are external and   *)
(* are modelled by the Client* actions.                                    *)
(***************************************************************************)
EXTENDS Integers, Sequences, FiniteSets, TLC

VARIABLES
    store,      \* the remote table "T": id -> <<>> (no item) or <<item>>
    op,         \* the adapter method of the current call ("none" before any)
    args,       \* the arguments the caller passed to it
    params,     \* the call's params object (scanTable mutates it)
    items,      \* scanTable's accumulator `let items = []`
    promise,    \* the promise returned to the caller: [state, value]
    pending,    \* requests handed to this.client whose completion is not yet computed
    inbox,      \* completions (err, data) computed, callback not yet run
    sent,       \* history: params of every request the call issued, in order
    served,     \* history: every completion delivered to a callback of the call
    lastWrite,  \* history: the last successful adapter write, while no other write hit its key
    seen,       \* history: lastWrite as it stood when the current getItem was answered
    effect,     \* history: the stored item before/after the current put/delete was processed
    descExpr,   \* input of the builder run (specification SpecBuild)
    descCmp,    \* input of the builder run (specification SpecBuild)
    built       \* output of the builder run: <<>> or <<result>>

vars == <<store, op, args, params, items, promise, pending, inbox, sent, served,
          lastWrite, seen, effect, descExpr, descCmp, built>>

callVars == <<op, args, params, items, promise, pending, inbox, sent, served, seen, effect>>
buildVars == <<descExpr, descCmp, built>>

-----------------------------------------------------------------------------
(* Bounds of the model *)

MaxId == 2          \* primary keys are 1..MaxId
MaxVal == 2         \* attribute values are 1..MaxVal
MaxKeys == 3        \* keys of a condition descriptor given to the builder alone

Ids == 1..MaxId
Vals == 1..MaxVal

-----------------------------------------------------------------------------
(* Strings *)

ID == <<"i", "d">>
V == <<"v">>
W == <<"w">>
SP == <<" ">>
AND == <<" ", "A", "N", "D", " ">>
UNDEFINED == <<"u", "n", "d", "e", "f", "i", "n", "e", "d">>
EQ == <<"=">>
NE == <<"<", ">">>
LT == <<"<">>

AttrNames == {ID, V}
Operators == {EQ, NE, LT}

\* an attribute name as the key of an item object
RECURSIVE Str(_)
Str(chars) == IF chars = <<>> THEN "" ELSE Head(chars) \o Str(Tail(chars))

Item(i, v) == [id |-> i, v |-> v]
Key(i) == [id |-> i]

Last(s) == s[Len(s)]

-----------------------------------------------------------------------------
(* Promises: the first resolve or reject settles; later ones are ignored *)

PendingPromise == [state |-> "pending", value |-> <<>>]
resolve(pr, v) == IF pr.state = "pending" THEN [state |-> "fulfilled", value |-> <<v>>] ELSE pr
reject(pr, e) == IF pr.state = "pending" THEN [state |-> "rejected", value |-> <<e>>] ELSE pr

-----------------------------------------------------------------------------
(* buildConditionExpression.  `expression` is the sequence of <<key, value>> *)
(* pairs in for-in order; `comparison` is a function key -> operator.        *)

\* `${comparisonOperator}`: an absent operator prints as "undefined"
templateString(v) == IF v = <<>> THEN UNDEFINED ELSE v[1]

\* comparison[key]
Lookup(obj, key) == IF key \in DOMAIN obj THEN <<obj[key]>> ELSE <<>>

\* obj[key] = value
ObjSet(obj, key, value) == (key :> value) @@ obj

\* faulty variant: the separator is added before the first clause too
appendClauseAlwaysAnd(expressionString, attributeName, comparisonOperator, attributeValue) ==
    expressionString \o AND
        \o attributeName \o SP \o templateString(comparisonOperator) \o SP \o attributeValue

appendClause(expressionString, attributeName, comparisonOperator, attributeValue) ==
    (IF Len(expressionString) > 0 THEN expressionString \o AND ELSE expressionString)
        \o attributeName \o SP \o templateString(comparisonOperator) \o SP \o attributeValue

RECURSIVE buildLoop(_, _, _, _)
buildLoop(expression, comparison, i, acc) ==
    IF i > Len(expression) THEN acc
    ELSE LET key == expression[i][1]
             attributeName == <<"#">> \o key
             attributeValue == <<":">> \o key
             comparisonOperator == Lookup(comparison, key)
         IN buildLoop(expression, comparison, i + 1,
                [expression |-> appendClause(acc.expression, attributeName,
                                             comparisonOperator, attributeValue),
                 names |-> ObjSet(acc.names, attributeName, key),
                 values |-> ObjSet(acc.values, attributeValue, expression[i][2])])

buildConditionExpression(expression, comparison) ==
    buildLoop(expression, comparison, 1,
              [expression |-> <<>>, names |-> <<>>, values |-> <<>>])

-----------------------------------------------------------------------------
(* The params objects.  `expression` and `comparison` arrive as <<>> (null, *)
(* the default) or <<mapping>>; a mapping, even an empty one, is truthy.    *)

withCondition(base, conditionExpression) ==
    [ConditionExpression |-> conditionExpression.expression,
     ExpressionAttributeNames |-> conditionExpression.names,
     ExpressionAttributeValues |-> conditionExpression.values] @@ base

getItemParams(tableName, key) == [TableName |-> tableName, Key |-> key]

\* faulty variant: the condition is attached when the comparison values alone are supplied
deleteItemParamsLoose(tableName, key, expression, comparison) ==
    IF expression # <<>>
    THEN withCondition([TableName |-> tableName, Key |-> key],
                       buildConditionExpression(expression[1],
                            IF comparison = <<>> THEN <<>> ELSE comparison[1]))
    ELSE [TableName |-> tableName, Key |-> key]

deleteItemParams(tableName, key, expression, comparison) ==
    IF expression # <<>> /\ comparison # <<>>
    THEN withCondition([TableName |-> tableName, Key |-> key],
                       buildConditionExpression(expression[1], comparison[1]))
    ELSE [TableName |-> tableName, Key |-> key]

\* faulty variant: the condition descriptor is ignored
putItemParamsNoCondition(tableName, item, expression, comparison) ==
    [TableName |-> tableName, Item |-> item]

putItemParams(tableName, item, expression, comparison) ==
    IF expression # <<>> /\ comparison # <<>>
    THEN withCondition([TableName |-> tableName, Item |-> item],
                       buildConditionExpression(expression[1], comparison[1]))
    ELSE [TableName |-> tableName, Item |-> item]

scanTableParams(tableName) == [TableName |-> tableName]

-----------------------------------------------------------------------------
(* The remote service behind this.client: table "T" exists, no other does. *)
(* A condition expression is parsed from its text: clauses separated by    *)
(* " AND ", each "#name operator :value" with both placeholders bound.     *)

StartsWith(s, p) == Len(s) >= Len(p) /\ SubSeq(s, 1, Len(p)) = p

RECURSIVE Split(_, _)
Split(s, sep) ==
    IF s = <<>> THEN << <<>> >>
    ELSE IF StartsWith(s, sep)
         THEN << <<>> >> \o Split(SubSeq(s, Len(sep) + 1, Len(s)), sep)
         ELSE LET r == Split(Tail(s), sep)
              IN << <<Head(s)>> \o r[1] >> \o Tail(r)

HasCondition(p) == "ConditionExpression" \in DOMAIN p

Clauses(p) == Split(p.ConditionExpression, AND)

ClauseValid(p, clause) ==
    LET t == Split(clause, SP)
    IN /\ Len(t) = 3
       /\ t[1] \in DOMAIN p.ExpressionAttributeNames
       /\ t[2] \in Operators
       /\ t[3] \in DOMAIN p.ExpressionAttributeValues

ConditionValid(p) ==
    HasCondition(p) =>
        /\ p.ConditionExpression # <<>>
        /\ DOMAIN p.ExpressionAttributeNames # {}
        /\ DOMAIN p.ExpressionAttributeValues # {}
        /\ \A j \in 1..Len(Clauses(p)) : ClauseValid(p, Clauses(p)[j])

\* a comparison against a missing attribute (or a missing item) is true only for <>
Compare(cur, attr, operator, value) ==
    IF cur = <<>> \/ Str(attr) \notin DOMAIN cur[1] THEN operator = NE
    ELSE CASE operator = EQ -> cur[1][Str(attr)] = value
           [] operator = NE -> cur[1][Str(attr)] # value
           [] operator = LT -> cur[1][Str(attr)] < value

ClauseHolds(p, clause, cur) ==
    LET t == Split(clause, SP)
    IN Compare(cur, p.ExpressionAttributeNames[t[1]], t[2],
               p.ExpressionAttributeValues[t[3]])

ConditionHolds(p, cur) ==
    HasCondition(p) => \A j \in 1..Len(Clauses(p)) : ClauseHolds(p, Clauses(p)[j], cur)

Failure(code) == [err |-> <<[code |-> code]>>, data |-> <<>>]
Success(data) == [err |-> <<>>, data |-> <<data>>]

\* the completion of a put or delete of key k, and the item stored afterwards
WriteOutcome(p, k, new) ==
    IF p.TableName # "T" THEN [resp |-> Failure("ResourceNotFoundException"), after |-> store[k], done |-> FALSE]
    ELSE IF ~ConditionValid(p) THEN [resp |-> Failure("ValidationException"), after |-> store[k], done |-> FALSE]
    ELSE IF ~ConditionHolds(p, store[k])
         THEN [resp |-> Failure("ConditionalCheckFailedException"), after |-> store[k], done |-> FALSE]
    ELSE [resp |-> Success(<<>>), after |-> new, done |-> TRUE]

\* the items of the table after the exclusive start key, in key order
RECURSIVE ItemsAfter(_)
ItemsAfter(start) ==
    IF start >= MaxId THEN <<>>
    ELSE store[start + 1] \o ItemsAfter(start + 1)

-----------------------------------------------------------------------------
(* Inputs *)

TableNames == {"T", "X"}

SeqsUpTo(S, n) == UNION {[1..m -> S] : m \in 0..n}
DistinctKeys(s) == \A i, j \in 1..Len(s) : i # j => s[i][1] # s[j][1]
ExprsOver(names, n) == {s \in SeqsUpTo(names \X Vals, n) : DistinctKeys(s)}
CmpsOver(names) == UNION {[D -> Operators] : D \in SUBSET names}

\* the <<expression, comparison>> argument pairs a caller passes: one or both
\* omitted, both empty, one key, a key without an operator, two keys
CallConditions ==
    {<< <<>>, <<>> >>,
     << << << <<V, 1>> >> >>, <<>> >>,
     << <<>>, << (V :> EQ) >> >>,
     << << <<>> >>, << <<>> >> >>,
     << << << <<V, 1>> >> >>, << <<>> >> >>}
    \cup {<< << << <<V, v>> >> >>, << (V :> o) >> >> : v \in Vals, o \in {EQ, NE}}
    \cup {<< << << <<ID, 1>>, <<V, v>> >> >>, << (V :> LT) @@ (ID :> EQ) >> >> : v \in Vals}

-----------------------------------------------------------------------------
(* Initial state: the adapter is constructed, no call made, table empty *)

NoPromise == [state |-> "none", value |-> <<>>]

InitCall ==
    /\ store = [k \in Ids |-> <<>>]
    /\ op = "none"
    /\ args = <<>>
    /\ params = <<>>
    /\ items = <<>>
    /\ promise = NoPromise
    /\ pending = <<>>
    /\ inbox = <<>>
    /\ sent = <<>>
    /\ served = <<>>
    /\ lastWrite = <<>>
    /\ seen = <<>>
    /\ effect = <<>>

Init ==
    /\ InitCall
    /\ descExpr = <<>>
    /\ descCmp = <<>>
    /\ built = <<>>

\* the caller makes one call at a time
Idle == op = "none"

\* the tail every method shares: a fresh promise and the first request
Start(method, p) ==
    /\ params' = p
    /\ items' = <<>>
    /\ promise' = PendingPromise
    /\ pending' = <<[method |-> method, params |-> p]>>
    /\ sent' = <<p>>
    /\ served' = <<>>
    /\ inbox' = <<>>
    /\ seen' = <<>>
    /\ effect' = <<>>
    /\ UNCHANGED <<store, lastWrite, buildVars>>

-----------------------------------------------------------------------------
(* The adapter's methods *)

GetItem(tableName, key) ==
    /\ Idle
    /\ op' = "getItem"
    /\ args' = [tableName |-> tableName, key |-> key]
    /\ Start("get", getItemParams(tableName, key))

DeleteItem(tableName, key, expression, comparison) ==
    /\ Idle
    /\ op' = "deleteItem"
    /\ args' = [tableName |-> tableName, key |-> key,
                expression |-> expression, comparison |-> comparison]
    /\ Start("delete", deleteItemParams(tableName, key, expression, comparison))

PutItem(tableName, item, expression, comparison) ==
    /\ Idle
    /\ op' = "putItem"
    /\ args' = [tableName |-> tableName, item |-> item,
                expression |-> expression, comparison |-> comparison]
    /\ Start("put", putItemParams(tableName, item, expression, comparison))

ScanTable(tableName, paginate) ==
    /\ Idle
    /\ op' = "scanTable"
    /\ args' = [tableName |-> tableName, paginate |-> paginate]
    /\ Start("scan", scanTableParams(tableName))

-----------------------------------------------------------------------------
(* The callbacks *)

\* faulty variant: an error is turned into an empty result
getItemCallbackSwallow(pr, err, data) ==
    IF err # <<>> THEN resolve(pr, <<>>) ELSE resolve(pr, data[1])

getItemCallback(pr, err, data) ==
    IF err # <<>> THEN reject(pr, err[1]) ELSE resolve(pr, data[1])

deleteItemCallback(pr, err, data) ==
    IF err # <<>> THEN reject(pr, err[1]) ELSE resolve(pr, data[1])

putItemCallback(pr, err, data) ==
    IF err # <<>> THEN reject(pr, err[1]) ELSE resolve(pr, data[1])

scanTableCallback(pr, err, data) ==
    IF err # <<>> THEN reject(pr, err[1]) ELSE resolve(pr, data[1].Items)

\* faulty variant: the next request is sent with the params as they were before the update
ScanAgainStale(p) ==
    /\ pending' = Append(pending, [method |-> "scan", params |-> params])
    /\ sent' = Append(sent, params)

\* this.client.scan(params, onScan) from inside onScan
ScanAgain(p) ==
    /\ pending' = Append(pending, [method |-> "scan", params |-> p])
    /\ sent' = Append(sent, p)

\* faulty variant: each page replaces the accumulated items
onScanOverwrite(err, data) ==
    IF err # <<>>
    THEN /\ promise' = reject(promise, err[1])
         /\ UNCHANGED <<items, params, pending, sent>>
    ELSE /\ items' = data[1].Items
         /\ IF "LastEvaluatedKey" \in DOMAIN data[1]
            THEN /\ params' = [ExclusiveStartKey |-> data[1].LastEvaluatedKey] @@ params
                 /\ ScanAgain(params')
                 /\ UNCHANGED promise
            ELSE /\ promise' = resolve(promise, items')
                 /\ UNCHANGED <<params, pending, sent>>

\* faulty variant: on an error the items accumulated so far are delivered
onScanPartial(err, data) ==
    IF err # <<>>
    THEN /\ promise' = resolve(promise, items)
         /\ UNCHANGED <<items, params, pending, sent>>
    ELSE /\ items' = items \o data[1].Items
         /\ IF "LastEvaluatedKey" \in DOMAIN data[1]
            THEN /\ params' = [ExclusiveStartKey |-> data[1].LastEvaluatedKey] @@ params
                 /\ ScanAgain(params')
                 /\ UNCHANGED promise
            ELSE /\ promise' = resolve(promise, items')
                 /\ UNCHANGED <<params, pending, sent>>

onScan(err, data) ==
    IF err # <<>>
    THEN /\ promise' = reject(promise, err[1])
         /\ UNCHANGED <<items, params, pending, sent>>
    ELSE /\ items' = items \o data[1].Items
         /\ IF "LastEvaluatedKey" \in DOMAIN data[1]
            THEN /\ params' = [ExclusiveStartKey |-> data[1].LastEvaluatedKey] @@ params
                 /\ ScanAgain(params')
                 /\ UNCHANGED promise
            ELSE /\ promise' = resolve(promise, items')
                 /\ UNCHANGED <<params, pending, sent>>

\* the client invokes the callback of the oldest computed completion
Deliver ==
    /\ inbox # <<>>
    /\ inbox' = Tail(inbox)
    /\ served' = Append(served, Head(inbox))
    /\ UNCHANGED <<store, op, args, lastWrite, seen, effect, buildVars>>

GetItemDone ==
    /\ op = "getItem"
    /\ Deliver
    /\ promise' = getItemCallback(promise, Head(inbox).err, Head(inbox).data)
    /\ UNCHANGED <<items, params, pending, sent>>

DeleteItemDone ==
    /\ op = "deleteItem"
    /\ Deliver
    /\ promise' = deleteItemCallback(promise, Head(inbox).err, Head(inbox).data)
    /\ UNCHANGED <<items, params, pending, sent>>

PutItemDone ==
    /\ op = "putItem"
    /\ Deliver
    /\ promise' = putItemCallback(promise, Head(inbox).err, Head(inbox).data)
    /\ UNCHANGED <<items, params, pending, sent>>

\* faulty variant: the non-paginated scan follows continuation keys
ScanTableDonePaginating ==
    /\ op = "scanTable"
    /\ ~args.paginate
    /\ Deliver
    /\ onScan(Head(inbox).err, Head(inbox).data)

ScanTableDone ==
    /\ op = "scanTable"
    /\ ~args.paginate
    /\ Deliver
    /\ promise' = scanTableCallback(promise, Head(inbox).err, Head(inbox).data)
    /\ UNCHANGED <<items, params, pending, sent>>

OnScan ==
    /\ op = "scanTable"
    /\ args.paginate
    /\ Deliver
    /\ onScan(Head(inbox).err, Head(inbox).data)

-----------------------------------------------------------------------------
(* The client and the service compute the completion of the oldest request *)

Complete(resp) ==
    /\ pending' = Tail(pending)
    /\ inbox' = Append(inbox, resp)
    /\ UNCHANGED <<op, args, params, items, promise, sent, served, buildVars>>

ClientGet ==
    /\ pending # <<>>
    /\ Head(pending).method = "get"
    /\ LET p == Head(pending).params
           k == p.Key.id
       IN /\ Complete(IF p.TableName # "T" THEN Failure("ResourceNotFoundException")
                      ELSE IF store[k] = <<>> THEN Success(<<>>)
                      ELSE Success([Item |-> store[k][1]]))
          /\ seen' = IF p.TableName = "T" /\ lastWrite # <<>> /\ lastWrite[1].key = k
                     THEN lastWrite ELSE <<>>
    /\ UNCHANGED <<store, lastWrite, effect>>

ClientWrite(method, k, new, opName) ==
    LET p == Head(pending).params
        o == WriteOutcome(p, k, new)
    IN /\ Complete(o.resp)
       /\ store' = [store EXCEPT ![k] = o.after]
       /\ effect' = IF p.TableName = "T"
                    THEN <<[before |-> store[k], after |-> o.after]>> ELSE <<>>
       /\ lastWrite' = IF o.done
                       THEN <<[key |-> k, op |-> opName, item |-> o.after,
                               conditional |-> HasCondition(p)]>>
                       ELSE lastWrite
       /\ UNCHANGED seen

ClientPut ==
    /\ pending # <<>>
    /\ Head(pending).method = "put"
    /\ ClientWrite("put", Head(pending).params.Item.id,
                   <<Head(pending).params.Item>>, "putItem")

ClientDelete ==
    /\ pending # <<>>
    /\ Head(pending).method = "delete"
    /\ ClientWrite("delete", Head(pending).params.Key.id, <<>>, "deleteItem")

\* one page: the next n items; a continuation key whenever items remain,
\* and possibly also when the page ends exactly at the last item
ClientScan ==
    /\ pending # <<>>
    /\ Head(pending).method = "scan"
    /\ LET p == Head(pending).params
           start == IF "ExclusiveStartKey" \in DOMAIN p THEN p.ExclusiveStartKey.id ELSE 0
           rest == ItemsAfter(start)
       IN IF p.TableName # "T" THEN Complete(Failure("ResourceNotFoundException"))
          ELSE \E n \in 0..Len(rest), more \in BOOLEAN :
                  /\ n = 0 => rest = <<>> /\ ~more
                  /\ n < Len(rest) => more
                  /\ Complete(Success(
                        IF more
                        THEN [Items |-> SubSeq(rest, 1, n),
                              LastEvaluatedKey |-> Key(rest[n].id)]
                        ELSE [Items |-> SubSeq(rest, 1, n)]))
    /\ UNCHANGED <<store, lastWrite, seen, effect>>

\* the request fails before the service processes it
ClientError ==
    /\ pending # <<>>
    /\ Complete(Failure("NetworkingError"))
    /\ UNCHANGED <<store, lastWrite, seen, effect>>

\* Another client of the service writes or deletes an item.  The service orders
\* it before or after each single-item request, so it is taken between calls;
\* only a scan spans several requests and sees writes between its pages.
ExternalWrite(k, new) ==
    /\ op \in {"none", "scanTable"}
    /\ new # store[k]
    /\ store' = [store EXCEPT ![k] = new]
    /\ lastWrite' = IF lastWrite # <<>> /\ lastWrite[1].key = k THEN <<>> ELSE lastWrite
    /\ UNCHANGED <<callVars, buildVars>>

\* the caller's then/catch handler has consumed the settled promise
Release ==
    /\ promise.state \in {"fulfilled", "rejected"}
    /\ pending = <<>>
    /\ inbox = <<>>
    /\ op' = "none"
    /\ args' = <<>>
    /\ params' = <<>>
    /\ items' = <<>>
    /\ promise' = NoPromise
    /\ sent' = <<>>
    /\ served' = <<>>
    /\ seen' = <<>>
    /\ effect' = <<>>
    /\ UNCHANGED <<store, lastWrite, pending, inbox, buildVars>>

-----------------------------------------------------------------------------

Next ==
    \/ \E t \in TableNames, k \in Ids : GetItem(t, Key(k))
    \/ \E t \in TableNames, k \in Ids, d \in CallConditions :
          DeleteItem(t, Key(k), d[1], d[2])
    \/ \E t \in TableNames, k \in Ids, v \in Vals, d \in CallConditions :
          PutItem(t, Item(k, v), d[1], d[2])
    \/ \E t \in TableNames, paginate \in BOOLEAN : ScanTable(t, paginate)
    \/ GetItemDone
    \/ DeleteItemDone
    \/ PutItemDone
    \/ ScanTableDone
    \/ OnScan
    \/ ClientGet
    \/ ClientPut
    \/ ClientDelete
    \/ ClientScan
    \/ ClientError
    \/ \E k \in Ids, v \in Vals : ExternalWrite(k, <<Item(k, v)>>)
    \/ \E k \in Ids : ExternalWrite(k, <<>>)
    \/ Release

Spec == Init /\ [][Next]_vars

-----------------------------------------------------------------------------
(* The builder alone, on every descriptor of up to MaxKeys keys *)

BuildNames == {ID, V, W}

InitBuild ==
    /\ InitCall
    /\ descExpr \in ExprsOver(BuildNames, MaxKeys)
    /\ descCmp \in CmpsOver(BuildNames)
    /\ built = <<>>

Build ==
    /\ built = <<>>
    /\ built' = <<buildConditionExpression(descExpr, descCmp)>>
    /\ UNCHANGED <<store, lastWrite, callVars, descExpr, descCmp>>

SpecBuild == InitBuild /\ [][Build]_vars

-----------------------------------------------------------------------------
(* Properties *)

Quiet == pending = <<>> /\ inbox = <<>>
HasToken(resp) == resp.err = <<>> /\ "LastEvaluatedKey" \in DOMAIN resp.data[1]
Rejected(e) == [state |-> "rejected", value |-> <<e>>]
Fulfilled(v) == [state |-> "fulfilled", value |-> <<v>>]

RECURSIVE ConcatItems(_)
ConcatItems(resps) ==
    IF resps = <<>> THEN <<>>
    ELSE Head(resps).data[1].Items \o ConcatItems(Tail(resps))

\* the pages P1..Pk of the claim: k responses, all successful, the first k-1
\* with a continuation key and the k-th without
ServedAllPages ==
    /\ served # <<>>
    /\ \A j \in 1..Len(served) : served[j].err = <<>>
    /\ \A j \in 1..(Len(served) - 1) : HasToken(served[j])
    /\ ~HasToken(Last(served))

\* C1: a paginated scan served as pages P1..Pk issues exactly k requests and
\* resolves with P1.Items ++ ... ++ Pk.Items, in page order.
C1_PaginatedScanConcatenatesPages ==
    (op = "scanTable" /\ args.paginate /\ ServedAllPages) =>
        /\ promise = Fulfilled(ConcatItems(served))
        /\ Len(sent) = Len(served)
        /\ Quiet

C1_Witness ==
    /\ op = "scanTable" /\ args.paginate /\ ServedAllPages
    /\ Len(served) = 3
    /\ promise.state = "fulfilled"
    /\ Len(promise.value[1]) = 2

\* C2: a non-paginated scan issues exactly one request, without a start key,
\* and resolves with the items of that one response even when the response
\* carries a continuation key.
C2_SinglePageScan ==
    (op = "scanTable" /\ ~args.paginate) =>
        /\ Len(sent) = 1
        /\ "ExclusiveStartKey" \notin DOMAIN sent[1]
        /\ Len(pending) + Len(inbox) + Len(served) = 1
        /\ (served # <<>> /\ served[1].err = <<>>) =>
               promise = Fulfilled(served[1].data[1].Items)

C2_Witness ==
    /\ op = "scanTable" /\ ~args.paginate
    /\ served # <<>> /\ HasToken(served[1])
    /\ promise.state = "fulfilled"
    /\ Len(promise.value[1]) = 1

\* C3: when the request for some page of a paginated scan completes with an
\* error, the call is rejected with that error, no further request is issued,
\* and the call is never fulfilled: the accumulated items are not delivered.
C3_PaginatedScanAllOrNothing ==
    \A j \in 1..Len(served) :
        (op = "scanTable" /\ args.paginate /\ served[j].err # <<>>) =>
            /\ j = Len(served)
            /\ promise = Rejected(served[j].err[1])
            /\ Len(sent) = Len(served)
            /\ Quiet

C3_Witness ==
    /\ op = "scanTable" /\ args.paginate
    /\ Len(served) = 2
    /\ served[2].err # <<>>
    /\ items # <<>>
    /\ promise.state = "rejected"

\* the arguments of the current put or delete carry a condition descriptor
\* whose every comparison value has an operator, and at least one clause
IsWrite == op \in {"putItem", "deleteItem"}
BothSupplied == args.expression # <<>> /\ args.comparison # <<>>
WellFormedDescriptor ==
    /\ BothSupplied
    /\ Len(args.expression[1]) >= 1
    /\ \A i \in 1..Len(args.expression[1]) :
           args.expression[1][i][1] \in DOMAIN args.comparison[1]

\* what the descriptor means: every comparison holds of the stored item
DescriptorHolds(expression, comparison, cur) ==
    \A i \in 1..Len(expression) :
        Compare(cur, expression[i][1], comparison[expression[i][1]], expression[i][2])

\* what the current put or delete stores when it is applied
Written == IF op = "putItem" THEN <<args.item>> ELSE <<>>
\* the completion of the current call's only request, once computed
Completion == IF served # <<>> THEN served[1] ELSE inbox[1]
ConditionalCheckFailed == [code |-> "ConditionalCheckFailedException"]

\* C4: a put or delete with a condition descriptor, processed by the service:
\* if the condition is false of the stored item the call fails with
\* ConditionalCheckFailed and the stored item is unchanged; if it is true the
\* call succeeds, the write is applied, and a later getItem of that key (no
\* write in between) observes it: the written item after a put, none after a
\* delete.
C4_ConditionalWrite ==
    /\ (IsWrite /\ WellFormedDescriptor /\ effect # <<>>) =>
          IF DescriptorHolds(args.expression[1], args.comparison[1], effect[1].before)
          THEN /\ Completion.err = <<>>
               /\ effect[1].after = Written
               /\ served # <<>> => promise.state = "fulfilled"
          ELSE /\ Completion.err = <<ConditionalCheckFailed>>
               /\ effect[1].after = effect[1].before
               /\ served # <<>> => promise = Rejected(ConditionalCheckFailed)
    /\ (op = "getItem" /\ promise.state = "fulfilled" /\ seen # <<>> /\ seen[1].conditional) =>
          IF seen[1].op = "putItem"
          THEN /\ "Item" \in DOMAIN promise.value[1]
               /\ promise.value[1].Item = seen[1].item[1]
          ELSE "Item" \notin DOMAIN promise.value[1]

C4_Witness ==
    /\ op = "deleteItem" /\ WellFormedDescriptor
    /\ effect # <<>> /\ effect[1].before # <<>>
    /\ promise = Rejected(ConditionalCheckFailed)
    /\ lastWrite # <<>> /\ lastWrite[1].conditional /\ lastWrite[1].op = "putItem"

\* C5: after a successful putItem of an item, with no write to its key in
\* between, getItem of that key resolves with a value equal to the item written.
C5_RoundTrip ==
    (op = "getItem" /\ promise.state = "fulfilled" /\ seen # <<>> /\ seen[1].op = "putItem") =>
        promise.value[1] = seen[1].item[1]

\* C6: whenever the client completes a request of a call with an error, the
\* call is rejected with exactly that error and issues no further request.
C6_ErrorsPropagateUnchanged ==
    \A j \in 1..Len(served) :
        served[j].err # <<>> =>
            /\ op \in {"getItem", "putItem", "deleteItem", "scanTable"}
            /\ j = Len(served)
            /\ promise = Rejected(served[j].err[1])
            /\ Len(sent) = Len(served)
            /\ Quiet

C6_Witness ==
    /\ op = "getItem"
    /\ served # <<>>
    /\ promise = Rejected([code |-> "NetworkingError"])

\* C8: a paginated scan is sequential: at most one request is outstanding, the
\* first request has no start key, and request j+1 is issued only after
\* response j, with exactly that response's continuation key as its start key.
C8_SequentialPagination ==
    (op = "scanTable" /\ args.paginate) =>
        /\ Len(pending) + Len(inbox) <= 1
        /\ Len(sent) = Len(served) + Len(pending) + Len(inbox)
        /\ "ExclusiveStartKey" \notin DOMAIN sent[1]
        /\ \A j \in 2..Len(sent) :
               /\ HasToken(served[j - 1])
               /\ "ExclusiveStartKey" \in DOMAIN sent[j]
               /\ sent[j].ExclusiveStartKey = served[j - 1].data[1].LastEvaluatedKey

C8_Witness ==
    /\ op = "scanTable" /\ args.paginate
    /\ Len(sent) = 3
    /\ Len(pending) = 1
    /\ sent[3].ExclusiveStartKey = Key(2)

\* C10: putItem and deleteItem attach the three condition fields, taken from
\* the builder, exactly when both mappings are supplied; otherwise the request
\* holds only TableName and Item/Key and the write is applied unconditionally;
\* TableName and Item/Key are always the arguments as given.
C10_ConditionOnlyWhenBothSupplied ==
    IsWrite =>
        LET base == IF op = "putItem"
                    THEN [TableName |-> args.tableName, Item |-> args.item]
                    ELSE [TableName |-> args.tableName, Key |-> args.key]
        IN /\ Len(sent) = 1
           /\ IF BothSupplied
              THEN LET b == buildConditionExpression(args.expression[1], args.comparison[1])
                   IN /\ DOMAIN sent[1] = DOMAIN base \cup {"ConditionExpression",
                              "ExpressionAttributeNames", "ExpressionAttributeValues"}
                      /\ \A f \in DOMAIN base : sent[1][f] = base[f]
                      /\ sent[1].ConditionExpression = b.expression
                      /\ sent[1].ExpressionAttributeNames = b.names
                      /\ sent[1].ExpressionAttributeValues = b.values
              ELSE /\ sent[1] = base
                   /\ effect # <<>> => /\ effect[1].after = Written
                                       /\ Completion.err = <<>>

C10_Witness ==
    /\ op = "deleteItem"
    /\ args.expression # <<>> /\ args.comparison = <<>>
    /\ effect # <<>> /\ effect[1].before # <<>> /\ effect[1].after = <<>>
    /\ promise.state = "fulfilled"

-----------------------------------------------------------------------------
(* Properties of the builder (specification SpecBuild) *)

KeysOf(expression) == {expression[i][1] : i \in 1..Len(expression)}
ClauseTexts(s) == IF s = <<>> THEN <<>> ELSE Split(s, AND)
Separators(s) == Len(Split(s, AND)) - 1
ClauseOf(key, operator) == <<"#">> \o key \o SP \o operator \o SP \o <<":">> \o key

\* the clauses and bindings of the result r are those of the n keys of descExpr
ClausesAndBindings(r, n) ==
    /\ Len(ClauseTexts(r.expression)) = n
    /\ \A i \in 1..Len(ClauseTexts(r.expression)) :
           i <= Len(descExpr) =>
               ClauseTexts(r.expression)[i] = ClauseOf(descExpr[i][1], descCmp[descExpr[i][1]])
    /\ Cardinality(DOMAIN r.names) = n
    /\ Cardinality(DOMAIN r.values) = n
    /\ \A i \in 1..Len(descExpr) :
           /\ Lookup(r.names, <<"#">> \o descExpr[i][1]) = <<descExpr[i][1]>>
           /\ Lookup(r.values, <<":">> \o descExpr[i][1]) = <<descExpr[i][2]>>

\* C7 as stated: N clauses, N-1 separators and N entries in each binding
\* mapping for every descriptor with N shared keys, N = 0 included.
C7_AsStated ==
    (built # <<>> /\ KeysOf(descExpr) = DOMAIN descCmp) =>
        LET n == Cardinality(KeysOf(descExpr) \cap DOMAIN descCmp)
        IN /\ ClausesAndBindings(built[1], n)
           /\ Separators(built[1].expression) = n - 1

\* C7 amended: for a descriptor whose N comparison values all have an
\* operator, N clauses "#key operator :key" and N entries in each binding
\* mapping; N-1 separators when N >= 1, and none (the empty expression) when
\* N = 0.
C7_ClausesAndSeparators ==
    (built # <<>> /\ KeysOf(descExpr) \subseteq DOMAIN descCmp) =>
        LET n == Cardinality(KeysOf(descExpr) \cap DOMAIN descCmp)
        IN /\ ClausesAndBindings(built[1], n)
           /\ Separators(built[1].expression) = IF n = 0 THEN 0 ELSE n - 1
           /\ n = 0 => built[1].expression = <<>>

C7_Witness ==
    /\ built # <<>>
    /\ Len(descExpr) = 3
    /\ KeysOf(descExpr) \subseteq DOMAIN descCmp
    /\ Separators(built[1].expression) = 2

====
